---------------------------- MODULE Spec2Model ----------------------------
(***************************************************************************)
(* Model of the turn engine of src/src/components/advanced-scm-game.tsx    *)
(* (AdvancedScmGame): the React state gameState / gameMode / playerCount,  *)
(* the decision handlers, the player-count effect and the nextTurn state   *)
(* updater.                                                                *)
(*                                                                         *)
(* Numbers.  The source computes in IEEE doubles; the model computes the   *)
(* same decimal quantities exactly, as scaled integers:                    *)
(*   inventory                      in 1/100 of a unit   (InvScale)        *)
(*   budget, score, revenue, costs,                                        *)
(*   expenses, aiScore              in 1/1000 of a money unit (MoneyScale) *)
(*   foreignExchangeGain            in 1/1000000 of a money unit           *)
(*   orders, investments, demand,                                          *)
(*   productionCapacity             plain integers                         *)
(* Supplier and season multipliers are kept as the integer numerators of   *)
(* their decimal fractions (quality 0.9 is 9 tenths, and so on).           *)
(*                                                                         *)
(* Objects.  nextTurn copies only the top-level GameState object           *)
(* ({ ...prevState }) and then writes through the product and player       *)
(* objects that the copy shares with prevState.  The variable held is the  *)
(* GameState object that was current before the last nextTurn, as it reads *)
(* after the call; before is the value that object had when nextTurn was   *)
(* called.                                                                 *)
(***************************************************************************)
EXTENDS Integers, Sequences, FiniteSets, TLC

VARIABLES
    gameState,    \* useState<GameState>: the committed GameState
    gameMode,     \* useState: 'easy' | 'normal' | 'hard'
    playerCount,  \* useState<number>: the requested number of players
    crashed,      \* the nextTurn updater threw (no handler in the component)
    before,       \* value of the GameState handed to the last nextTurn
    held,         \* that same GameState object, read after the call
    lastDraws,    \* the Math.random() outcomes of the last nextTurn
    settlement,   \* budgets before/after each offer of the last settlement
    ledger,       \* the players after each product of the last nextTurn
    invested,     \* per slot: investments applied so far, money scale
    lastOp,       \* the handler that ran last
    fuel          \* handler invocations left within the modelled horizon

vars == << gameState, gameMode, playerCount, crashed, before, held,
           lastDraws, settlement, ledger, invested, lastOp, fuel >>

---------------------------------------------------------------------------
\* Bounds of the model

\* handler invocations explored from the initial state, per specification
MaxSteps == 3
MaxTradeSteps == 5
MaxLifeSteps == 5
MaxDeskSteps == 3

---------------------------------------------------------------------------
\* Program constants

InvScale == 100
MoneyScale == 1000

baselineDemand == 20
unitPrice == 20
unitOrderCost == 10
budgetCeiling == 2000
tradeAmount == 100
initialBudget == 1000
initialCapacity == 100
initialInventory == 50
facilityStep == 100

Min(a, b) == IF a <= b THEN a ELSE b
Max(a, b) == IF a >= b THEN a ELSE b

\* Math.round of the positive or negative rational num/den (den > 0):
\* floor(x + 1/2)
MathRound(num, den) == (2 * num + den) \div (2 * den)

Lifecycles == << "introduction", "growth", "maturity", "decline" >>
Seasons == << "spring", "summer", "autumn", "winter" >>
Countries == << "USA", "Japan", "EU", "China" >>

\* index (0-based) of a lifecycle stage: lifecycles.indexOf
LifecycleIndex(l) == (CHOOSE i \in 1..4 : Lifecycles[i] = l) - 1

\* productLifecycle, in hundredths
productLifecycle(l) ==
    CASE l = "introduction" -> [growth |-> 10, decline |-> 5]
      [] l = "growth"       -> [growth |-> 20, decline |-> 10]
      [] l = "maturity"     -> [growth |-> 5,  decline |-> 5]
      [] l = "decline"      -> [growth |-> 0,  decline |-> 20]

\* exchangeRates, in hundredths
exchangeRates(c) ==
    CASE c = "USA" -> 100 [] c = "Japan" -> 11000 [] c = "EU" -> 90 [] c = "China" -> 130

\* transportCosts, in tenths
transportCosts(c) ==
    CASE c = "USA" -> 10 [] c = "Japan" -> 12 [] c = "EU" -> 11 [] c = "China" -> 13

simulateGlobalMarket(baseline, country) ==
    MathRound(baseline * exchangeRates(country) * transportCosts(country), 1000)

\* seasonalFactors, in tenths
seasonalFactors(s) ==
    CASE s = "spring" -> 10 [] s = "summer" -> 12 [] s = "autumn" -> 9 [] s = "winter" -> 7

\* the supplier catalog: quality and cost in tenths, reliability in hundredths
suppliers == <<
    [id |-> 1, quality |-> 9,  cost |-> 11, reliability |-> 95],
    [id |-> 2, quality |-> 8,  cost |-> 9,  reliability |-> 90],
    [id |-> 3, quality |-> 10, cost |-> 12, reliability |-> 98] >>

SupplierIds == { suppliers[i].id : i \in 1..Len(suppliers) }

\* suppliers.find(s => s.id === id); the caller tests id \in SupplierIds before
\* it reads a field (an id outside the catalog finds undefined)
FindSupplier(id) ==
    IF id \in SupplierIds
    THEN suppliers[CHOOSE i \in 1..Len(suppliers) : suppliers[i].id = id]
    ELSE [id |-> id, quality |-> 0, cost |-> 0, reliability |-> 0]

\* the events table of simulateEnvironmentalEvent, impact in tenths
events == <<
    [name |-> "disaster",   impact |-> -3],
    [name |-> "turmoil",    impact |-> -2],
    [name |-> "innovation", impact |-> 2],
    [name |-> "boom",       impact |-> 3] >>

\* simulateEnvironmentalEvent: roll = 0 stands for Math.random() >= 0.1 (null),
\* roll = k > 0 for Math.random() < 0.1 and Math.floor(Math.random() * 4) = k - 1
NoEvent == [name |-> "null", impact |-> 0]

simulateEnvironmentalEvent(roll) ==
    IF roll = 0 THEN NoEvent ELSE events[roll]

---------------------------------------------------------------------------
\* Initial GameState (useState initial value)

NewPlayer ==
    [budget |-> initialBudget * MoneyScale, score |-> 0,
     productionCapacity |-> initialCapacity, revenue |-> 0, expenses |-> 0,
     holdingCost |-> 0, stockoutPenalty |-> 0, orderCost |-> 0,
     rdInvestment |-> 0, facilityInvestment |-> 0, foreignExchangeGain |-> 0]

InitialGameState ==
    [turn |-> 1,
     currentSeason |-> "spring",
     products |-> <<
        [id |-> 1, inventory |-> << initialInventory * InvScale >>,
         demandHistory |-> << >>, orders |-> << 0 >>,
         lifecycle |-> "introduction", supplier |-> 1],
        [id |-> 2, inventory |-> << initialInventory * InvScale >>,
         demandHistory |-> << >>, orders |-> << 0 >>,
         lifecycle |-> "growth", supplier |-> 2] >>,
     players |-> << NewPlayer >>,
     aiScore |-> 0,
     environmentalEvent |-> NoEvent,
     tradeOffers |-> << >>]

ProductIds == { InitialGameState.products[k].id : k \in 1..Len(InitialGameState.products) }

---------------------------------------------------------------------------
\* aiStrategy(gameState, productId, difficulty); difficulty in tenths.
\* The caller passes the id of a product of gameState.

Difficulty(mode) ==
    IF mode = "hard" THEN 20 ELSE IF mode = "normal" THEN 10 ELSE 5

SumSeq(s) ==
    LET RECURSIVE Go(_)
        Go(i) == IF i = 0 THEN 0 ELSE s[i] + Go(i - 1)
    IN Go(Len(s))

\* lines 94-97: products.find; aiStrategy throws "not found" when this fails
aiStrategyFinds(gs, productId) ==
    \E k \in 1..Len(gs.products) : gs.products[k].id = productId

aiStrategy(gs, productId, difficulty) ==
    LET product == gs.products[CHOOSE k \in 1..Len(gs.products) : gs.products[k].id = productId]
        len == Len(product.demandHistory)
        \* averageDemand = sumD / cnt  (0 / 1 for an empty history)
        sumD == SumSeq(product.demandHistory)
        cnt == IF len > 0 THEN len ELSE 1
        seasonalFactor == seasonalFactors(gs.currentSeason)
        lifecycleFactor == productLifecycle(product.lifecycle).growth
                           - productLifecycle(product.lifecycle).decline
        \* desiredInventory = desiredNum / den
        den == cnt * 10 * 100 * 100
        desiredNum == sumD * seasonalFactor * (100 + lifecycleFactor) * (100 + 2 * difficulty)
        \* Math.max(0, desiredInventory - product.inventory[0])
        orderNum == Max(0, desiredNum - product.inventory[1] * (den \div InvScale))
        capacity == gs.players[1].productionCapacity
        budgetLimit == gs.players[1].budget \div (10 * MoneyScale)
        limited == Min(Min(orderNum, capacity * den), budgetLimit * den)
    IN MathRound(limited, den)

---------------------------------------------------------------------------
\* nextTurn: the body of the setGameState updater.
\* draws = [event, advance, jitter]: event is the roll of
\* simulateEnvironmentalEvent, advance[k] tells whether Math.random() < 0.1
\* for product k, jitter[k][i] is Math.random() * 0.1 - 0.05 in thousandths
\* for product k and player slot i.

\* realized demand of one product for player slot index (0-based)
Demand(gs, product, index) ==
    LET seasonalFactor == seasonalFactors(gs.currentSeason)
        lifecycleFactor == productLifecycle(product.lifecycle).growth
                           - productLifecycle(product.lifecycle).decline
        environmentalFactor == IF gs.environmentalEvent.name # "null"
                               THEN 10 + gs.environmentalEvent.impact ELSE 10
        country == Countries[(index % 4) + 1]
        globalDemand == simulateGlobalMarket(baselineDemand, country)
    IN MathRound(globalDemand * seasonalFactor * (100 + lifecycleFactor) * environmentalFactor,
                 10 * 100 * 10)

ClampInventoryOff(x) == x

\* line 344: Math.max(0, ...)
ClampInventory(x) == Max(0, x)

OutcomeSellsRestocked(product, index, demand) ==
    LET supplier == FindSupplier(product.supplier)
        inv == product.inventory[index + 1]
        ord == product.orders[index + 1]
        stocked == inv + ord * supplier.reliability
        newInventory == ClampInventory(stocked - demand * InvScale)
    IN [newInventory |-> newInventory,
        revenue |-> Min(demand * InvScale, stocked) * unitPrice * supplier.quality,
        holdingCost |-> newInventory * 5,
        stockoutPenalty |-> Max(0, demand * InvScale - stocked) * 20,
        orderCost |-> ord * unitOrderCost * supplier.cost * 100]

\* the figures of one product/player pair (lines 343-348)
Outcome(product, index, demand) ==
    LET supplier == FindSupplier(product.supplier)
        inv == product.inventory[index + 1]
        ord == product.orders[index + 1]
        newInventory == ClampInventory(inv + ord * supplier.reliability - demand * InvScale)
    IN \* money = units * rate * MoneyScale, with units = hundredths / InvScale
       \* and the supplier factors in tenths
       [newInventory |-> newInventory,
        revenue |-> Min(demand * InvScale, inv) * unitPrice * supplier.quality,  \* / 100 / 10 * 1000
        holdingCost |-> newInventory * 5,                                        \* * 0.5 / 100 * 1000
        stockoutPenalty |-> Max(0, demand * InvScale - inv) * 20,                \* * 2 / 100 * 1000
        orderCost |-> ord * unitOrderCost * supplier.cost * 100]                 \* / 10 * 1000

\* the ledger update of one player for one product (lines 350-357)
UpdateLedger(player, o, jit) ==
    [player EXCEPT
        !.budget = Min(player.budget - o.orderCost + o.revenue, budgetCeiling * MoneyScale),
        !.revenue = @ + o.revenue,
        !.expenses = @ + o.holdingCost + o.stockoutPenalty + o.orderCost,
        !.holdingCost = @ + o.holdingCost,
        !.stockoutPenalty = @ + o.stockoutPenalty,
        !.orderCost = @ + o.orderCost,
        !.score = @ + o.revenue - o.holdingCost - o.stockoutPenalty - o.orderCost,
        !.foreignExchangeGain = @ + o.revenue * jit]

KeepOrders(orders, n) == orders

\* line 360: product.orders[index] = 0, for every slot of the player loop
ResetOrders(orders, n) == [i \in 1..Len(orders) |-> IF i <= n THEN 0 ELSE orders[i]]

AdvanceLifecycleWrap(l, roll) ==
    IF roll THEN Lifecycles[((LifecycleIndex(l) + 1) % Len(Lifecycles)) + 1] ELSE l

\* lines 364-368
AdvanceLifecycle(l, roll) ==
    IF roll THEN Lifecycles[Min(LifecycleIndex(l) + 1, Len(Lifecycles) - 1) + 1] ELSE l

\* lines 371-378: the amount added to aiScore for one product
AiDelta(gs, product, mode) ==
    LET aiOrder == aiStrategy(gs, product.id, Difficulty(mode))
        lastDemand == product.demandHistory[Len(product.demandHistory)]
        inv0 == product.inventory[1]
        aiInventory == Max(0, inv0 + aiOrder * InvScale - lastDemand * InvScale)
        aiRevenue == Min(lastDemand * InvScale, inv0) * unitPrice * 10   \* / 100 * 1000
        aiHoldingCost == aiInventory * 5
        aiStockoutPenalty == Max(0, lastDemand * InvScale - inv0) * 20
        aiOrderCost == aiOrder * unitOrderCost * MoneyScale
    IN aiRevenue - aiHoldingCost - aiStockoutPenalty - aiOrderCost

ProcessProductAiSeated(w, k, draws, mode) ==
    LET gs == w.gs
        product == gs.products[k]
        n == Len(gs.players)
        demands == [i \in 1..n |-> Demand(gs, product, i - 1)]
    IN IF w.thrown THEN w
       ELSE IF product.supplier \notin SupplierIds
       THEN [gs |-> [gs EXCEPT !.products[k].demandHistory = Append(@, demands[1])],
             thrown |-> TRUE,
             ledger |-> w.ledger]
       ELSE
        LET out == [i \in 1..n |-> Outcome(product, i - 1, demands[i])]
            players1 == [i \in 1..n |-> UpdateLedger(gs.players[i], out[i], draws.jitter[k][i])]
            product1 == [product EXCEPT
                            !.demandHistory = @ \o demands,
                            !.inventory = [i \in 1..Len(@) |->
                                             IF i <= n THEN out[i].newInventory ELSE @[i]],
                            !.orders = ResetOrders(@, n),
                            !.lifecycle = AdvanceLifecycle(@, draws.advance[k])]
            gs1 == [gs EXCEPT !.products[k] = product1, !.players = players1]
            aiOrder == aiStrategy(gs1, product1.id, Difficulty(mode))
        IN [gs |-> [gs1 EXCEPT !.aiScore = @ + AiDelta(gs1, product1, mode),
                               !.players[1].budget = @ - aiOrder * unitOrderCost * MoneyScale],
            thrown |-> FALSE,
            ledger |-> Append(w.ledger, players1)]

\* One iteration of newState.products.forEach (lines 331-379) on the working
\* state w = [gs, thrown, ledger]; gs.products and gs.players are the shared
\* objects, ledger lists the players as they stand after each product.
ProcessProduct(w, k, draws, mode) ==
    LET gs == w.gs
        product == gs.products[k]
        n == Len(gs.players)
        demands == [i \in 1..n |-> Demand(gs, product, i - 1)]
    IN IF w.thrown THEN w
       ELSE IF product.supplier \notin SupplierIds
       THEN \* line 341 has pushed the demand of slot 0; line 344 throws
            [gs |-> [gs EXCEPT !.products[k].demandHistory = Append(@, demands[1])],
             thrown |-> TRUE,
             ledger |-> w.ledger]
       ELSE
        LET out == [i \in 1..n |-> Outcome(product, i - 1, demands[i])]
            players1 == [i \in 1..n |-> UpdateLedger(gs.players[i], out[i], draws.jitter[k][i])]
            product1 == [product EXCEPT
                            !.demandHistory = @ \o demands,
                            !.inventory = [i \in 1..Len(@) |->
                                             IF i <= n THEN out[i].newInventory ELSE @[i]],
                            !.orders = ResetOrders(@, n),
                            !.lifecycle = AdvanceLifecycle(@, draws.advance[k])]
            gs1 == [gs EXCEPT !.products[k] = product1, !.players = players1]
        IN [gs |-> [gs1 EXCEPT !.aiScore = @ + AiDelta(gs1, product1, mode)],
            thrown |-> FALSE,
            ledger |-> Append(w.ledger, players1)]

ProcessProducts(w, draws, mode) ==
    LET RECURSIVE Go(_, _)
        Go(x, k) == IF k > Len(w.gs.products) THEN x
                    ELSE Go(ProcessProduct(x, k, draws, mode), k + 1)
    IN Go(w, 1)

ApplyInvestmentScored(player) ==
    [player EXCEPT
        !.productionCapacity = @ + (player.facilityInvestment \div facilityStep),
        !.budget = @ - (player.rdInvestment + player.facilityInvestment) * MoneyScale,
        !.expenses = @ + (player.rdInvestment + player.facilityInvestment) * MoneyScale,
        !.score = @ - (player.rdInvestment + player.facilityInvestment) * MoneyScale,
        !.rdInvestment = 0,
        !.facilityInvestment = 0]

\* lines 382-388
ApplyInvestment(player) ==
    [player EXCEPT
        !.productionCapacity = @ + (player.facilityInvestment \div facilityStep),
        !.budget = @ - (player.rdInvestment + player.facilityInvestment) * MoneyScale,
        !.expenses = @ + (player.rdInvestment + player.facilityInvestment) * MoneyScale,
        !.rdInvestment = 0,
        !.facilityInvestment = 0]

Budgets(players) == [i \in 1..Len(players) |-> players[i].budget]

CanPayAlways(player, offer) == TRUE

\* line 393: the test on the sender's budget
CanPay(player, offer) == player.budget >= offer.amount * MoneyScale

\* lines 391-397: one offer on x = [players, trace, thrown]
SettleOffer(x, offer) ==
    LET n == Len(x.players)
        from == offer.from + 1
        to == offer.to + 1
    IN IF x.thrown THEN x
       ELSE IF from \notin 1..n
       THEN [x EXCEPT !.thrown = TRUE]           \* line 393 reads players[from].budget
       ELSE IF CanPay(x.players[from], offer)
       THEN LET debited == [x.players EXCEPT ![from].budget = @ - offer.amount * MoneyScale]
            IN IF to \notin 1..n
               THEN [players |-> debited, trace |-> x.trace, thrown |-> TRUE]  \* line 395
               ELSE LET credited == [debited EXCEPT ![to].budget = @ + offer.amount * MoneyScale]
                    IN [players |-> credited,
                        trace |-> Append(x.trace, Budgets(credited)),
                        thrown |-> FALSE]
       ELSE [x EXCEPT !.trace = Append(@, Budgets(x.players))]

SettleNewestFirst(players, offers) ==
    LET RECURSIVE Go(_, _)
        Go(x, j) == IF j < 1 THEN x
                    ELSE Go(SettleOffer(x, offers[j]), j - 1)
    IN Go([players |-> players, trace |-> << Budgets(players) >>, thrown |-> FALSE],
          Len(offers))

\* lines 391-397: tradeOffers.forEach, first to last
Settle(players, offers) ==
    LET RECURSIVE Go(_, _)
        Go(x, j) == IF j > Len(offers) THEN x
                    ELSE Go(SettleOffer(x, offers[j]), j + 1)
    IN Go([players |-> players, trace |-> << Budgets(players) >>, thrown |-> FALSE], 1)

\* The updater: result.gs is newState as built; result.thrown tells that a
\* TypeError left the updater before "return newState".
nextTurnUpdater(prevState, draws, mode) ==
    LET turn == prevState.turn + 1
        s0 == [prevState EXCEPT
                  !.turn = turn,
                  !.currentSeason = Seasons[(turn % 4) + 1],
                  !.environmentalEvent = simulateEnvironmentalEvent(draws.event)]
        w1 == ProcessProducts([gs |-> s0, thrown |-> FALSE, ledger |-> << >>], draws, mode)
        invested1 == [i \in 1..Len(w1.gs.players) |-> ApplyInvestment(w1.gs.players[i])]
        applied == [i \in 1..Len(w1.gs.players) |->
                      IF w1.thrown THEN 0
                      ELSE (w1.gs.players[i].rdInvestment
                            + w1.gs.players[i].facilityInvestment) * MoneyScale]
        st == IF w1.thrown
              THEN [players |-> w1.gs.players, trace |-> << >>, thrown |-> TRUE]
              ELSE Settle(invested1, w1.gs.tradeOffers)
    IN [gs |-> [w1.gs EXCEPT !.players = st.players,
                             !.tradeOffers = IF st.thrown THEN @ ELSE << >>],
        trace |-> st.trace,
        ledger |-> w1.ledger,
        applied |-> applied,
        thrown |-> st.thrown]

\* What the object prevState reads after the updater ran: the top-level
\* fields were written on the copy (lines 326-329, 378, 398), products and
\* players through the shared objects.
ReadAfter(prevState, result) ==
    [prevState EXCEPT !.products = result.gs.products, !.players = result.gs.players]

---------------------------------------------------------------------------
\* Inputs

Slots(gs) == 0..(Len(gs.players) - 1)

\* numbers typed into the order inputs (Number(e.target.value), unclamped)
OrderValues == {-10, 10}

\* numbers typed into the investment inputs (unclamped)
InvestValues == {-100, 1650}

GameModes == {"easy", "normal", "hard"}

\* player counts chosen in the selector (it offers 1, 2, 3 and 4)
PlayerCounts == {1, 2, 3}

\* outcomes of Math.random() * 0.1 - 0.05, in thousandths
Jitters == {-50, 25}

\* The draws of one nextTurn.  The jitter is sampled with one value for all
\* product/player pairs of a call.
Draw(gs, e, a, j) ==
    [event |-> e, advance |-> a,
     jitter |-> [k \in 1..Len(gs.products) |-> [i \in 1..Len(gs.players) |-> j]]]

NoAdvance == << FALSE, FALSE >>

\* every event roll and every pair of lifecycle rolls, sampled with at most
\* one of the two kinds of rare outcome (probability 0.1 each) per call
DrawSet(gs) ==
    { Draw(gs, e, a, j) : e \in 0..Len(events), a \in {NoAdvance}, j \in Jitters }
    \cup { Draw(gs, 0, a, j) : a \in [1..Len(gs.products) -> BOOLEAN], j \in {-50} }

\* no event, any lifecycle rolls
LifeDrawSet(gs) ==
    { Draw(gs, 0, a, 25) : a \in [1..Len(gs.products) -> BOOLEAN] }

\* no event, no lifecycle advance
PlainDraw(gs) == Draw(gs, 0, NoAdvance, 25)

NoDraws == [event |-> 0, advance |-> NoAdvance, jitter |-> << << 0 >>, << 0 >> >>]

---------------------------------------------------------------------------
\* updateGameState (lines 309-322): applies the update and copies the
\* products (with their inventory and orders arrays) and the players.
updateGameState(newState) ==
    [newState EXCEPT
        !.products = [k \in 1..Len(newState.products) |->
                        [newState.products[k] EXCEPT
                            !.inventory = [i \in 1..Len(@) |-> @[i]],
                            !.orders = [i \in 1..Len(@) |-> @[i]]]],
        !.players = [i \in 1..Len(newState.players) |-> newState.players[i]]]

\* the state updates of the decision handlers, as functions of prevState
OrderChangeAdds(prevState, playerId, productId, value) ==
    [prevState EXCEPT !.products =
        [k \in 1..Len(@) |->
            IF @[k].id = productId
            THEN [@[k] EXCEPT !.orders =
                    [i \in 1..Len(@) |-> IF i - 1 = playerId THEN @[i] + value ELSE @[i]]]
            ELSE @[k]]]

OrderChange(prevState, playerId, productId, value) ==
    [prevState EXCEPT !.products =
        [k \in 1..Len(@) |->
            IF @[k].id = productId
            THEN [@[k] EXCEPT !.orders =
                    [i \in 1..Len(@) |-> IF i - 1 = playerId THEN value ELSE @[i]]]
            ELSE @[k]]]

InvestmentChange(prevState, playerId, type, value) ==
    [prevState EXCEPT !.players =
        [i \in 1..Len(@) |->
            IF i - 1 = playerId
            THEN IF type = "rd" THEN [@[i] EXCEPT !.rdInvestment = value]
                                ELSE [@[i] EXCEPT !.facilityInvestment = value]
            ELSE @[i]]]

SupplierChangeDropsOrders(prevState, productId, supplierId) ==
    [prevState EXCEPT !.products =
        [k \in 1..Len(@) |->
            IF @[k].id = productId
            THEN [@[k] EXCEPT !.supplier = supplierId,
                              !.orders = [i \in 1..Len(@) |-> 0]]
            ELSE @[k]]]

SupplierChange(prevState, productId, supplierId) ==
    [prevState EXCEPT !.products =
        [k \in 1..Len(@) |->
            IF @[k].id = productId THEN [@[k] EXCEPT !.supplier = supplierId] ELSE @[k]]]

TradeOffer(prevState, from, to) ==
    [prevState EXCEPT !.tradeOffers =
        Append(@, [from |-> from, to |-> to, amount |-> tradeAmount])]

\* lines 471-472: the arrays of a product grown by playerDiff slots
GrowInventory(inventory, playerDiff) ==
    inventory \o [i \in 1..playerDiff |-> initialInventory * InvScale]

GrowOrdersNone(orders, playerDiff) == orders

GrowOrders(orders, playerDiff) == orders \o [i \in 1..playerDiff |-> 0]

\* the player-count effect (lines 455-487) for a requested count
ResizeTo(prevState, count) ==
    LET n == Len(prevState.players)
        playerDiff == count - n
    IN IF playerDiff > 0
       THEN [prevState EXCEPT
                !.players = @ \o [i \in 1..playerDiff |-> NewPlayer],
                !.products = [k \in 1..Len(@) |->
                    [@[k] EXCEPT
                        !.inventory = GrowInventory(@, playerDiff),
                        !.orders = GrowOrders(@, playerDiff)]]]
       ELSE IF playerDiff < 0
       THEN [prevState EXCEPT
                !.players = SubSeq(@, 1, count),
                !.products = [k \in 1..Len(@) |->
                    [@[k] EXCEPT
                        !.inventory = SubSeq(@, 1, count),
                        !.orders = SubSeq(@, 1, count)]]]
       ELSE prevState

---------------------------------------------------------------------------
\* The state machine

InitWith(steps) ==
    /\ gameState = InitialGameState
    /\ gameMode = "normal"
    /\ playerCount = 1
    /\ crashed = FALSE
    /\ before = InitialGameState
    /\ held = InitialGameState
    /\ lastDraws = NoDraws
    /\ settlement = << >>
    /\ ledger = << >>
    /\ invested = << 0 >>
    /\ lastOp = "init"
    /\ fuel = steps

\* what every handler but nextTurn leaves alone; nothing runs once the
\* updater has thrown
Decision ==
    /\ ~crashed
    /\ fuel > 0
    /\ fuel' = fuel - 1
    /\ lastOp' = "decision"
    /\ UNCHANGED << crashed, before, held, lastDraws, settlement, ledger >>

handleOrderChange(playerId, productId, value) ==
    /\ Decision
    /\ gameState' = updateGameState(OrderChange(gameState, playerId, productId, value))
    /\ UNCHANGED << gameMode, playerCount, invested >>

handleInvestmentChange(playerId, type, value) ==
    /\ Decision
    /\ gameState' = updateGameState(InvestmentChange(gameState, playerId, type, value))
    /\ UNCHANGED << gameMode, playerCount, invested >>

handleSupplierChange(playerId, productId, supplierId) ==
    /\ Decision
    /\ gameState' = updateGameState(SupplierChange(gameState, productId, supplierId))
    /\ UNCHANGED << gameMode, playerCount, invested >>

handleTradeOffer(from, to) ==
    /\ Decision
    /\ gameState' = updateGameState(TradeOffer(gameState, from, to))
    /\ UNCHANGED << gameMode, playerCount, invested >>

setGameMode(mode) ==
    /\ Decision
    /\ mode # gameMode
    /\ gameMode' = mode
    /\ UNCHANGED << gameState, playerCount, invested >>

\* setPlayerCount(count) followed by the player-count effect
resizePlayers(count) ==
    /\ Decision
    /\ count # playerCount
    /\ playerCount' = count
    /\ gameState' = updateGameState(ResizeTo(gameState, count))
    /\ invested' = [i \in 1..count |-> IF i <= Len(invested) THEN invested[i] ELSE 0]
    /\ UNCHANGED gameMode

nextTurn(draws) ==
    /\ ~crashed
    /\ fuel > 0
    /\ fuel' = fuel - 1
    /\ lastOp' = "nextTurn"
    /\ \E result \in { nextTurnUpdater(gameState, draws, gameMode) } :
          /\ crashed' = result.thrown
          /\ before' = gameState
          /\ held' = ReadAfter(gameState, result)
          /\ gameState' = IF result.thrown THEN ReadAfter(gameState, result) ELSE result.gs
          /\ settlement' = result.trace
          /\ ledger' = result.ledger
          /\ invested' = [i \in 1..Len(invested) |-> invested[i] + result.applied[i]]
    /\ lastDraws' = draws
    /\ UNCHANGED << gameMode, playerCount >>

---------------------------------------------------------------------------
\* Spec: every handler, any slot, product and value

PlaceOrder ==
    \E playerId \in Slots(gameState), productId \in ProductIds, value \in OrderValues :
        handleOrderChange(playerId, productId, value)

SetInvestment ==
    \E playerId \in Slots(gameState), type \in {"rd", "facility"}, value \in InvestValues :
        handleInvestmentChange(playerId, type, value)

ChooseSupplier ==
    \E playerId \in {0}, productId \in ProductIds, supplierId \in SupplierIds :
        handleSupplierChange(playerId, productId, supplierId)

QueueTradeOffer ==
    \E from \in Slots(gameState), to \in Slots(gameState) :
        from # to /\ handleTradeOffer(from, to)

ChooseGameMode == \E mode \in GameModes : setGameMode(mode)

ChoosePlayerCount == \E count \in PlayerCounts : resizePlayers(count)

AdvanceTurn == \E draws \in DrawSet(gameState) : nextTurn(draws)

Init == InitWith(MaxSteps)

Next ==
    \/ PlaceOrder
    \/ SetInvestment
    \/ ChooseSupplier
    \/ QueueTradeOffer
    \/ ChooseGameMode
    \/ ChoosePlayerCount
    \/ AdvanceTurn

Spec == Init /\ [][Next]_vars

---------------------------------------------------------------------------
\* SpecTrade: the trade desk.  Player count, one large investment per player,
\* trade offers and turns without rare rolls, over a longer horizon.

TradeInvestment ==
    \E playerId \in Slots(gameState) : handleInvestmentChange(playerId, "rd", 1650)

TradeTurn == nextTurn(PlainDraw(gameState))

InitTrade == InitWith(MaxTradeSteps)

NextTrade ==
    \/ ChoosePlayerCount
    \/ TradeInvestment
    \/ QueueTradeOffer
    \/ TradeTurn

SpecTrade == InitTrade /\ [][NextTrade]_vars

---------------------------------------------------------------------------
\* SpecLife: turns with every combination of lifecycle rolls and orders of
\* slot 0, over a longer horizon.

LifeOrder ==
    \E productId \in ProductIds : handleOrderChange(0, productId, 10)

LifeTurn == \E draws \in LifeDrawSet(gameState) : nextTurn(draws)

InitLife == InitWith(MaxLifeSteps)

NextLife ==
    \/ LifeOrder
    \/ LifeTurn

SpecLife == InitLife /\ [][NextLife]_vars

---------------------------------------------------------------------------
\* SpecDesk: one round at the desk.  Every kind of decision, the player count
\* and turns without rare rolls, over a short horizon.

InitDesk == InitWith(MaxDeskSteps)

NextDesk ==
    \/ ChoosePlayerCount
    \/ LifeOrder
    \/ TradeInvestment
    \/ ChooseSupplier
    \/ QueueTradeOffer
    \/ TradeTurn

SpecDesk == InitDesk /\ [][NextDesk]_vars

---------------------------------------------------------------------------
\* Claims

Returned == lastOp = "nextTurn" /\ ~crashed

ProductIndexes == 1..Len(gameState.products)

PlayerIndexes == 1..Len(gameState.players)

\* C1: after nextTurn returns, every player's budget is at most 2000.
C1_BudgetCeiling ==
    Returned => \A i \in PlayerIndexes :
                    gameState.players[i].budget <= budgetCeiling * MoneyScale

\* C2: in every reachable state the inventory of every product and every
\* player slot is at least 0.
C2_InventoryNonNegative ==
    \A k \in ProductIndexes :
        \A i \in 1..Len(gameState.products[k].inventory) :
            gameState.products[k].inventory[i] >= 0

\* a turn in which a negative order met a demand above the stock: the slot
\* ends at exactly 0
C2_Witness ==
    /\ Returned
    /\ \E k \in ProductIndexes : \E i \in PlayerIndexes :
          /\ before.products[k].orders[i] < 0
          /\ before.products[k].inventory[i] > 0
          /\ gameState.products[k].inventory[i] = 0

NoPending(gs) ==
    /\ \A k \in 1..Len(gs.products) :
          \A i \in 1..Len(gs.products[k].orders) : gs.products[k].orders[i] = 0
    /\ \A i \in 1..Len(gs.players) :
          gs.players[i].rdInvestment = 0 /\ gs.players[i].facilityInvestment = 0

\* C3: right after nextTurn returns all orders and both investment fields are
\* 0, and a nextTurn that starts with nothing pending charges no order cost
\* and no investment: orderCost is unchanged, expenses grow by exactly the
\* holding cost and the stockout penalty, productionCapacity is unchanged.
C3_ConsumedOnce ==
    Returned =>
        /\ NoPending(gameState)
        /\ NoPending(before) =>
              \A i \in PlayerIndexes :
                 /\ gameState.players[i].orderCost = before.players[i].orderCost
                 /\ gameState.players[i].productionCapacity
                       = before.players[i].productionCapacity
                 /\ gameState.players[i].expenses - before.players[i].expenses
                       = (gameState.players[i].holdingCost - before.players[i].holdingCost)
                         + (gameState.players[i].stockoutPenalty
                            - before.players[i].stockoutPenalty)

\* the second of two turns in a row, the first of which consumed an order
C3_Witness ==
    /\ Returned
    /\ before.turn = 2
    /\ NoPending(before)
    /\ \E i \in PlayerIndexes : before.players[i].orderCost # 0

\* C4: the lifecycle stage index of every product never decreases, grows by
\* at most one per step, and decline stays decline.
C4_LifecycleMonotone ==
    [][\A k \in ProductIndexes :
          LET a == LifecycleIndex(gameState.products[k].lifecycle)
              b == LifecycleIndex(gameState'.products[k].lifecycle)
          IN b >= a /\ b <= a + 1 /\ (a = 3 => b = 3)]_vars

\* a product in decline is rolled to advance and stays in decline
C4_Witness ==
    /\ Returned
    /\ \E k \in ProductIndexes :
          /\ before.products[k].lifecycle = "decline"
          /\ lastDraws.advance[k]
          /\ gameState.products[k].lifecycle = "decline"

\* offer j of the last settlement found its sender short of the amount
Short(j) ==
    /\ j <= Len(settlement)
    /\ before.tradeOffers[j].from + 1 \in 1..Len(settlement[j])
    /\ before.tradeOffers[j].amount * MoneyScale
          > settlement[j][before.tradeOffers[j].from + 1]

\* C5: an offer whose amount exceeds the sender's budget when it is processed
\* is passed over without an error and leaves every budget as it was, and the
\* queue is empty when nextTurn returns.
C5_ShortOfferDropped ==
    lastOp = "nextTurn" =>
        /\ \A j \in 1..Len(before.tradeOffers) :
              Short(j) => /\ j < Len(settlement)
                          /\ settlement[j + 1] = settlement[j]
        /\ ~crashed => gameState.tradeOffers = << >>

C5_Witness ==
    /\ Returned
    /\ \E j \in 1..Len(before.tradeOffers) : Short(j)

\* C6: every product's inventory and orders have exactly one entry per player.
C6_ArraysAligned ==
    \A k \in ProductIndexes :
        /\ Len(gameState.products[k].inventory) = Len(gameState.players)
        /\ Len(gameState.products[k].orders) = Len(gameState.players)

\* a turn played by three players, the third with an order pending
C6_Witness ==
    /\ Returned
    /\ Len(gameState.players) = 3
    /\ \E k \in ProductIndexes : before.products[k].orders[3] # 0

\* C7: nextTurn leaves the GameState it was given as it was.
C7_InputUntouched ==
    lastOp = "nextTurn" => held = before

\* C8: the state after nextTurn is determined by the state before and the
\* commands, whatever Math.random() returns.
C8_Deterministic ==
    ~crashed =>
        \A d1, d2 \in DrawSet(gameState) :
            nextTurnUpdater(gameState, d1, gameMode).gs
               = nextTurnUpdater(gameState, d2, gameMode).gs

\* C9: a nextTurn that hits an unresolvable reference leaves the GameState as
\* it was before the call, and a later nextTurn from that state completes.
C9_AbortLeavesState ==
    (lastOp = "nextTurn" /\ crashed) =>
        /\ gameState = before
        /\ \E d \in DrawSet(gameState) : ~nextTurnUpdater(gameState, d, gameMode).thrown

\* C10: score = revenue - holdingCost - stockoutPenalty - orderCost, and
\* expenses = holdingCost + stockoutPenalty + orderCost + the investments
\* applied so far, for every player in every reachable state.
C10_LedgerIdentities ==
    \A i \in PlayerIndexes :
        LET p == gameState.players[i]
        IN /\ p.score = p.revenue - p.holdingCost - p.stockoutPenalty - p.orderCost
           /\ p.expenses = p.holdingCost + p.stockoutPenalty + p.orderCost + invested[i]

\* a turn that charged an order and applied an investment to one player
C10_Witness ==
    /\ Returned
    /\ \E i \in PlayerIndexes :
          /\ invested[i] # 0
          /\ gameState.players[i].orderCost # 0
          /\ gameState.players[i].score # gameState.players[i].revenue

\* C11: for every player, revenue, expenses, holdingCost, stockoutPenalty and
\* orderCost after a nextTurn are at least what they were before it, whatever
\* orders and investments were submitted.
C11_AccumulatorsMonotone ==
    Returned =>
        \A i \in PlayerIndexes :
            /\ gameState.players[i].revenue >= before.players[i].revenue
            /\ gameState.players[i].expenses >= before.players[i].expenses
            /\ gameState.players[i].holdingCost >= before.players[i].holdingCost
            /\ gameState.players[i].stockoutPenalty >= before.players[i].stockoutPenalty
            /\ gameState.players[i].orderCost >= before.players[i].orderCost

\* the reference figures of step 2 for product k and player index i of the
\* last nextTurn, from the state before it: D the demand, I the inventory and
\* O the order, with the supplier's quality, cost and reliability
RefStep(k, i) ==
    LET I == before.products[k].inventory[i]
        O == before.products[k].orders[i]
        s == suppliers[before.products[k].supplier]
        lf == productLifecycle(before.products[k].lifecycle)
        ef == IF lastDraws.event = 0 THEN 10 ELSE 10 + events[lastDraws.event].impact
        G == << 20, 2640, 20, 34 >>[((i - 1) % 4) + 1]
        D == MathRound(G * seasonalFactors(Seasons[((before.turn + 1) % 4) + 1])
                         * (100 + lf.growth - lf.decline) * ef, 10000)
        newInventory == Max(0, I + O * s.reliability - D * 100)
    IN [demand |-> D,
        newInventory |-> newInventory,
        revenue |-> Min(D * 100, I) * 20 * s.quality,
        holdingCost |-> 5 * newInventory,
        stockoutPenalty |-> 20 * Max(0, D * 100 - I),
        orderCost |-> O * s.cost * 1000]

\* the scenario: one player with budget 1000, product 1 in introduction with
\* inventory 50, order 10 and supplier 1, turn 1, no event
Scenario ==
    /\ Returned
    /\ Len(before.players) = 1
    /\ before.turn = 1
    /\ before.players[1].budget = 1000 * MoneyScale
    /\ before.products[1].inventory[1] = 50 * InvScale
    /\ before.products[1].lifecycle = "introduction"
    /\ before.products[1].orders[1] = 10
    /\ before.products[1].supplier = 1
    /\ lastDraws.event = 0

\* C12: the demand, inventory and ledger figures that nextTurn produces for
\* every product and player slot equal the reference formulas (demand from
\* the country, season, lifecycle and event; inventory max(0, I + O x
\* reliability - D); revenue min(D, I) x 20 x quality; holdingCost 0.5 x new
\* inventory; stockoutPenalty 2 x max(0, D - I); orderCost O x 10 x cost;
\* budget min(budget - orderCost + revenue, 2000)), and in the scenario they
\* are turn 2, demand 19, inventory 40.5, revenue 342, orderCost 110 and
\* budget 1232.
C12_StepFormulas ==
    /\ Returned =>
          \A k \in ProductIndexes : \A i \in PlayerIndexes :
             LET r == RefStep(k, i)
                 prev == IF k = 1 THEN before.players[i] ELSE ledger[k - 1][i]
                 cur == ledger[k][i]
             IN /\ gameState.products[k].demandHistory
                      [Len(before.products[k].demandHistory) + i] = r.demand
                /\ gameState.products[k].inventory[i] = r.newInventory
                /\ cur.revenue - prev.revenue = r.revenue
                /\ cur.holdingCost - prev.holdingCost = r.holdingCost
                /\ cur.stockoutPenalty - prev.stockoutPenalty = r.stockoutPenalty
                /\ cur.orderCost - prev.orderCost = r.orderCost
                /\ cur.budget = Min(prev.budget - r.orderCost + r.revenue, 2000 * MoneyScale)
    /\ Scenario =>
          /\ gameState.turn = 2
          /\ gameState.products[1].demandHistory[Len(before.products[1].demandHistory) + 1] = 19
          /\ gameState.products[1].inventory[1] = 4050
          /\ ledger[1][1].revenue - before.players[1].revenue = 342 * MoneyScale
          /\ ledger[1][1].orderCost - before.players[1].orderCost = 110 * MoneyScale
          /\ ledger[1][1].budget = 1232 * MoneyScale

C12_Witness == Scenario

\* the decisions that can be submitted in state gs, as [op, args]
Cmd(op, args) == [op |-> op, args |-> args]

Cmds(gs) ==
    { Cmd("handleOrderChange", << p, 1, v >>) : p \in Slots(gs), v \in OrderValues }
    \cup { Cmd("handleInvestmentChange", << p, "rd", v >>) : p \in Slots(gs), v \in InvestValues }
    \cup { Cmd("handleSupplierChange", << 1, s >>) : s \in {2, 3} }
    \cup { Cmd("handleTradeOffer", << ft[1], ft[2] >>) :
               ft \in { x \in Slots(gs) \X Slots(gs) : x[1] # x[2] } }

\* the GameState after decision c is submitted in gs
Apply(gs, c) ==
    CASE c.op = "handleOrderChange" ->
            updateGameState(OrderChange(gs, c.args[1], c.args[2], c.args[3]))
      [] c.op = "handleInvestmentChange" ->
            updateGameState(InvestmentChange(gs, c.args[1], c.args[2], c.args[3]))
      [] c.op = "handleSupplierChange" ->
            updateGameState(SupplierChange(gs, c.args[1], c.args[2]))
      [] c.op = "handleTradeOffer" ->
            updateGameState(TradeOffer(gs, c.args[1], c.args[2]))

\* c1 and c2 write the same pending field with different values
Conflict(c1, c2) ==
    /\ c1.op = c2.op
    /\ c1.op # "handleTradeOffer"
    /\ c1.args # c2.args
    /\ \A a \in 1..(Len(c1.args) - 1) : c1.args[a] = c2.args[a]

BothOffers(c1, c2) == c1.op = "handleTradeOffer" /\ c2.op = "handleTradeOffer"

\* C13: a decision submitted a second time with the same arguments leaves
\* the GameState as the first submission left it (and so, nextTurn being a
\* function of the GameState, the mode and the draws, the same state after
\* the next turn), for handleOrderChange, handleSupplierChange,
\* handleInvestmentChange and handleTradeOffer.
C13_Idempotent ==
    ~crashed =>
        \A c \in Cmds(gameState) :
            Apply(Apply(gameState, c), c) = Apply(gameState, c)

\* C13 as amended: the same for the three overwriting handlers only; a
\* repeated handleTradeOffer adds one more offer to the queue.
C13_OverwritesIdempotent ==
    ~crashed =>
        \A c \in Cmds(gameState) :
            IF c.op = "handleTradeOffer"
            THEN Apply(Apply(gameState, c), c).tradeOffers
                    = Append(Apply(gameState, c).tradeOffers,
                             [from |-> c.args[1], to |-> c.args[2], amount |-> tradeAmount])
            ELSE Apply(Apply(gameState, c), c) = Apply(gameState, c)

\* an order and an investment are pending, each as last submitted
C13_Witness ==
    /\ ~crashed
    /\ lastOp = "decision"
    /\ \E c \in Cmds(gameState) :
          /\ c.op = "handleOrderChange"
          /\ gameState = Apply(gameState, c)
    /\ \E i \in PlayerIndexes : gameState.players[i].rdInvestment # 0

\* C14: two decisions that do not write the same pending field with different
\* values, submitted in either order and followed by nextTurn with the same
\* draws, give the same GameState; this includes two handleTradeOffer calls.
C14_AnyOrder ==
    ~crashed =>
        \A c1, c2 \in Cmds(gameState) :
            ~Conflict(c1, c2) =>
                nextTurnUpdater(Apply(Apply(gameState, c1), c2), PlainDraw(gameState), gameMode).gs
                  = nextTurnUpdater(Apply(Apply(gameState, c2), c1), PlainDraw(gameState), gameMode).gs

\* C14 as amended: the same, unless both decisions are trade offers.  The
\* two orders of submission then give the same pending GameState, which
\* nextTurn takes to the same GameState under the same draws.
C14_AnyOrderButOffers ==
    ~crashed =>
        \A c1, c2 \in Cmds(gameState) :
            (~Conflict(c1, c2) /\ ~BothOffers(c1, c2)) =>
                Apply(Apply(gameState, c1), c2) = Apply(Apply(gameState, c2), c1)
\* a trade offer and an investment of its sender are both pending
C14_Witness ==
    /\ ~crashed
    /\ lastOp = "decision"
    /\ Len(gameState.tradeOffers) = 1
    /\ gameState.players[gameState.tradeOffers[1].from + 1].rdInvestment # 0

\* C15: in every reachable GameState, for every product and difficulty, the
\* order returned by aiStrategy is an integer that is at least 0, at most slot
\* 0's productionCapacity and at most floor(slot 0's budget / 10); for an id
\* that no product has, aiStrategy throws.
C15_AiOrderBounded ==
    ~crashed =>
        /\ \A id \in ProductIds : \A mode \in GameModes :
              LET order == aiStrategy(gameState, id, Difficulty(mode))
              IN /\ order \in Int
                 /\ order >= 0
                 /\ order <= gameState.players[1].productionCapacity
                 /\ order * 10 * MoneyScale <= gameState.players[1].budget
        /\ \A id \in {0, 3} : ~aiStrategyFinds(gameState, id)

\* C16: every product's demandHistory has one entry per nextTurn made so far
\* (turn - 1 of them), whatever the number of players, and a nextTurn keeps
\* the entries that were there.
C16_OneEntryPerTurn ==
    ~crashed =>
        \A k \in ProductIndexes :
            /\ Len(gameState.products[k].demandHistory) = gameState.turn - 1
            /\ lastOp = "nextTurn" =>
                  SubSeq(gameState.products[k].demandHistory, 1,
                         Len(before.products[k].demandHistory))
                     = before.products[k].demandHistory

\* offer j of the last settlement was applied
Paid(j) ==
    settlement[j][before.tradeOffers[j].from + 1]
        >= before.tradeOffers[j].amount * MoneyScale

\* C17: the offers are settled one after the other in the order of the queue.
\* The budgets the first offer meets are those after the turn's revenue,
\* order costs and investments; each offer is tested against its sender's
\* budget as the offers before it left it, moves its amount if the budget
\* covers it and nothing otherwise; the budgets after the last offer are the
\* budgets of the returned GameState.
C17_SettledInOrder ==
    Returned =>
        /\ Len(settlement) = Len(before.tradeOffers) + 1
        /\ \A i \in PlayerIndexes :
              /\ settlement[1][i]
                    = ledger[Len(ledger)][i].budget
                      - (before.players[i].rdInvestment
                         + before.players[i].facilityInvestment) * MoneyScale
              /\ gameState.players[i].budget = settlement[Len(settlement)][i]
        /\ \A j \in 1..Len(before.tradeOffers) :
              LET offer == before.tradeOffers[j]
                  amount == offer.amount * MoneyScale
              IN \A i \in PlayerIndexes :
                    settlement[j + 1][i] - settlement[j][i]
                       = IF ~Paid(j) THEN 0
                         ELSE IF i = offer.from + 1 THEN 0 - amount
                         ELSE IF i = offer.to + 1 THEN amount
                         ELSE 0

\* an offer was applied whose sender could not have paid it before the
\* settlement began: an earlier offer of the queue funded it
C17_Witness ==
    /\ Returned
    /\ \E j \in 1..Len(before.tradeOffers) :
          /\ Paid(j)
          /\ settlement[1][before.tradeOffers[j].from + 1]
                < before.tradeOffers[j].amount * MoneyScale

\* gs with the AI's score left out
BesidesAiScore(gs) == [gs EXCEPT !.aiScore = 0]

\* C18: the state a nextTurn returns is, aiScore apart, the state it would
\* have returned from the same GameState with the same draws under each of
\* the other game modes.
C18_ModeOnlyInAiScore ==
    Returned =>
        \A mode \in GameModes \ {gameMode} :
            BesidesAiScore(nextTurnUpdater(before, lastDraws, mode).gs)
               = BesidesAiScore(gameState)

\* a turn whose aiScore would have been another under another mode
C18_Witness ==
    /\ Returned
    /\ \E mode \in GameModes :
          nextTurnUpdater(before, lastDraws, mode).gs.aiScore # gameState.aiScore

\* C19: the demand history that the AI step of a nextTurn reads for a product
\* (its last entry as the demand of the turn, its mean as the forecast) has
\* gained slot 0's demand of that turn and nothing else, whatever the number
\* of players.
C19_AiReadsSlotZero ==
    Returned =>
        \A k \in ProductIndexes :
            LET old == before.products[k].demandHistory
                new == gameState.products[k].demandHistory
            IN /\ new[Len(new)] = RefStep(k, 1).demand
               /\ SubSeq(new, Len(old) + 1, Len(new)) = << RefStep(k, 1).demand >>

\* the season the order (spring, summer, autumn, winter) gives for a turn
SeasonOf(turn) == << "spring", "summer", "autumn", "winter" >>[(turn % 4) + 1]

\* C20: in every state, the initial one included, currentSeason is the season
\* of turn; a nextTurn that returns adds exactly 1 to turn and every other
\* step leaves turn as it is.
C20_SeasonFollowsTurn ==
    [][/\ gameState.currentSeason = SeasonOf(gameState.turn)
       /\ gameState'.currentSeason = SeasonOf(gameState'.turn)
       /\ gameState'.turn = IF lastOp' = "nextTurn" /\ ~crashed'
                            THEN gameState.turn + 1
                            ELSE gameState.turn]_vars

\* C21: in every state, every queued offer names two players of the current
\* players sequence as from and to, also after the player list has shrunk,
\* and no settlement has read a missing player.
C21_OffersNameSeatedPlayers ==
    /\ \A j \in 1..Len(gameState.tradeOffers) :
          /\ gameState.tradeOffers[j].from \in Slots(gameState)
          /\ gameState.tradeOffers[j].to \in Slots(gameState)
    /\ ~crashed

\* C22: the settlement of a nextTurn leaves the sum of all budgets as it was
\* when the settlement began, whatever offers are queued, and leaves no
\* budget below 0 that was at least 0 then.
C22_SettlementConserves ==
    (lastOp = "nextTurn" /\ Len(settlement) > 0) =>
        /\ SumSeq(Budgets(gameState.players)) = SumSeq(settlement[1])
        /\ \A i \in PlayerIndexes :
              settlement[1][i] >= 0 => gameState.players[i].budget >= 0

=============================================================================
